---------------------------- MODULE Spec2Model ----------------------------
(***************************************************************************)
(* A model of memflow's connector plugin inventory                         *)
(* (memflow-core/src/connector/plugin.rs) and of the Pointer64 value type  *)
(* (memflow/src/types/pointer64.rs).                                       *)
(*                                                                         *)
(* Spec          : the life cycle of a ConnectorInventory, of the libraries *)
(*                 it loads and of the ConnectorInstances it creates.      *)
(* SpecConnector : the same for Connectors the caller loads and owns       *)
(*                 itself (Connector::try_with, Connector::create).        *)
(* SpecPtr       : Pointer64 operations, on inputs drawn in PtrInit.       *)
(* SpecWin32     : the win32 plugin's build_kernel (memflow-win32/src/      *)
(*                 plugins.rs), on arguments drawn in BuildInit.           *)
(* SpecFfi       : the C functions over physical memory objects            *)
(*                 (memflow-ffi/src/mem/phys_mem.rs).                      *)
(***************************************************************************)
EXTENDS Integers, Sequences, FiniteSets, TLC

VARIABLES
    libs,        \* heap of Arc<Library>: <<[file, strong, loaded, unloads]>>
    inventory,   \* the ConnectorInventory: [state, connectors]
    loose,       \* Connectors owned directly by the caller (Connector::try_with)
    instances,   \* the live ConnectorInstances: <<[connector, _library]>>
    lastResult,  \* what the last call returned (and what it did on the way)
    ptr,         \* SpecPtr: the inputs of the Pointer64 operation
    ptrResult,   \* SpecPtr: the outcome of the last Pointer64 operation
    build,       \* SpecWin32: the last build_kernel call, its inputs and result
    ffi          \* SpecFfi: the physical memory objects behind the C functions

vars == <<libs, inventory, loose, instances, lastResult, ptr, ptrResult, build, ffi>>

---------------------------------------------------------------------------
(* Bounds of the model *)

\* longest directory listing handed to with_path
MaxFiles == 2
\* most entries in PATH
MaxPath == 2
\* an inventory is built while fewer than MaxLibs libraries were ever loaded
MaxLibs == 1
\* Connector::try_with is called while fewer than MaxLoads libraries were loaded
MaxLoads == 2
\* most ConnectorInstances alive at once
MaxInst == 2
\* the most mappings one phys_set_mem_map call passes (len)
MaxMaps == 2
\* width, in bits, at which u64 and usize are modelled
Bits == 4

---------------------------------------------------------------------------
(* Values *)

MEMFLOW_CONNECTOR_VERSION == 1

Error(kind, msg) == [kind |-> kind, msg |-> msg]
NoError == Error("none", "")

\* the errors a plugin's factory may return (memflow_core::error::Error values)
PluginErrors ==
    { Error("IO", "device unavailable"),
      Error("Other", "plugin failure"),
      Error("Connector", "bad arguments") }

\* the connector names used by libraries and callers
Names == {"qemu", "QEMU"}

\* What a directory entry's path holds:
\*   notlib : Library::new fails (not a shared object, or a directory)
\*   nosym  : a shared object without the MEMFLOW_CONNECTOR symbol
\*   desc   : a shared object exporting a ConnectorDescriptor
\*   ioerr  : the directory entry itself cannot be read
File(kind, version, name) == [kind |-> kind, version |-> version, name |-> name]
Files ==
    { File("notlib", 0, ""), File("nosym", 0, ""),
      File("desc", 0, "qemu"), File("desc", 1, "qemu"),
      File("desc", 1, "QEMU"), File("desc", 2, "QEMU") }
EntryError == File("ioerr", 0, "")
Entries == Files \cup {EntryError}

RECURSIVE SeqsUpTo(_, _)
SeqsUpTo(S, n) ==
    IF n = 0 THEN {<<>>}
    ELSE LET shorter == SeqsUpTo(S, n - 1)
         IN  shorter \cup {Append(s, x) : s \in {t \in shorter : Len(t) = n - 1}, x \in S}

\* What a path resolves to: not a directory, a directory read_dir cannot
\* open, or a directory with a listing.
Dir(isDir, readable, entries) ==
    [isDir |-> isDir, readable |-> readable, entries |-> entries]
NotADir == Dir(FALSE, FALSE, <<>>)
Unreadable == Dir(TRUE, FALSE, <<>>)
Dirs(n) == {NotADir, Unreadable} \cup {Dir(TRUE, TRUE, es) : es \in SeqsUpTo(Entries, n)}

\* What a call returned, with the argument it was given; `called` lists the
\* libraries whose factory the call ran and `plugin` is what the factory
\* returned (NoError for Ok).
Result(op, arg, ok, err) ==
    [op |-> op, arg |-> arg, ok |-> ok, err |-> err, called |-> <<>>, plugin |-> NoError]


---------------------------------------------------------------------------
(* Arc<Library>: the shared library handle *)

\* Arc::new(library): a freshly loaded library with one strong reference
arc_new(ls, file) ==
    Append(ls, [file |-> file, strong |-> 1, loaded |-> TRUE, unloads |-> 0])

\* (mutant) the instance is built without taking a share of the library
arc_clone_forgotten(ls, l) == ls

\* Arc::clone: one more strong reference to the same library
arc_clone(ls, l) == [ls EXCEPT ![l].strong = @ + 1]

\* (mutant) every drop of a share unloads the library
arc_drop_eager(ls, l) ==
    [ls EXCEPT ![l].strong = @ - 1, ![l].loaded = FALSE, ![l].unloads = @ + 1]

\* Drop of one Arc<Library>: the last drop drops the Library, which unloads it
arc_drop(ls, l) ==
    IF ls[l].strong = 1
    THEN [ls EXCEPT ![l].strong = 0, ![l].loaded = FALSE, ![l].unloads = @ + 1]
    ELSE [ls EXCEPT ![l].strong = @ - 1]

\* Drop of a Vec<Connector> (or of single Connectors): each drops its Arc
RECURSIVE drop_connectors(_, _)
drop_connectors(ls, cs) ==
    IF cs = <<>> THEN ls
    ELSE drop_connectors(arc_drop(ls, Head(cs).library), Tail(cs))

---------------------------------------------------------------------------
(* Connector::try_with *)

\* (mutant) any version from MEMFLOW_CONNECTOR_VERSION on is accepted
version_ok_at_least(connector_version) == connector_version >= MEMFLOW_CONNECTOR_VERSION

\* the version gate of try_with
version_ok(connector_version) == connector_version = MEMFLOW_CONNECTOR_VERSION

\* Connector::try_with(path), on what the path holds.  A library that is
\* rejected was loaded by Library::new and is unloaded again when the local
\* `library` goes out of scope at the early return; it never gets an Arc.
try_with(file) ==
    IF file.kind \notin {"nosym", "desc"}
    THEN [ok |-> FALSE, err |-> Error("Connector", "unable to load library")]
    ELSE IF file.kind # "desc"
    THEN [ok |-> FALSE, err |-> Error("Connector", "connector descriptor not found")]
    ELSE IF ~version_ok(file.version)
    THEN [ok |-> FALSE, err |-> Error("Connector", "connector version mismatch")]
    ELSE [ok |-> TRUE, err |-> NoError]

\* the Connector built at the end of a successful try_with; `l` is the index
\* of its Arc<Library>.  The factory pointer is the library's own.
Connector(l, file) == [library |-> l, name |-> file.name, factory |-> l]

---------------------------------------------------------------------------
(* ConnectorInventory::add_dir *)

\* (mutant) a file that fails to load ends add_dir with an error
RECURSIVE add_entries_strict(_, _, _)
add_entries_strict(cs, ls, es) ==
    IF es = <<>> THEN [ok |-> TRUE, err |-> NoError, connectors |-> cs, libs |-> ls]
    ELSE IF Head(es).kind = "ioerr"
    THEN [ok |-> FALSE, err |-> Error("IO", "unable to read directory entry"),
          connectors |-> cs, libs |-> ls]
    ELSE IF Head(es).kind = "desc" /\ Head(es).version = MEMFLOW_CONNECTOR_VERSION
    THEN add_entries_strict(Append(cs, [library |-> Len(ls) + 1, name |-> Head(es).name,
                                        factory |-> Len(ls) + 1]),
                            Append(ls, [file |-> Head(es), strong |-> 1, loaded |-> TRUE,
                                        unloads |-> 0]), Tail(es))
    ELSE [ok |-> FALSE, err |-> Error("Connector", "unable to load library"),
          connectors |-> cs, libs |-> ls]

\* the loop over the directory's entries: the first unreadable entry ends the
\* call with an error and leaves what was pushed before it in place
RECURSIVE add_entries(_, _, _)
add_entries(cs, ls, es) ==
    IF es = <<>> THEN [ok |-> TRUE, err |-> NoError, connectors |-> cs, libs |-> ls]
    ELSE IF Head(es).kind = "ioerr"
    THEN [ok |-> FALSE, err |-> Error("IO", "unable to read directory entry"),
          connectors |-> cs, libs |-> ls]
    ELSE IF try_with(Head(es)).ok
    THEN add_entries(Append(cs, Connector(Len(ls) + 1, Head(es))),
                     arc_new(ls, Head(es)), Tail(es))
    ELSE add_entries(cs, ls, Tail(es))

add_dir(cs, ls, dir) ==
    IF ~dir.isDir
    THEN [ok |-> FALSE, err |-> Error("IO", "invalid path argument"),
          connectors |-> cs, libs |-> ls]
    ELSE IF ~dir.readable
    THEN [ok |-> FALSE, err |-> Error("IO", "unable to read directory"),
          connectors |-> cs, libs |-> ls]
    ELSE add_entries(cs, ls, dir.entries)

\* path.push("memflow"): the directory '<entry>/memflow', not the entry itself
push_memflow(entry) == entry.memflow

\* (mutant) the first PATH entry that cannot be added ends the scan
RECURSIVE add_paths_strict(_, _, _)
add_paths_strict(cs, ls, paths) ==
    IF paths = <<>> THEN [connectors |-> cs, libs |-> ls]
    ELSE LET r == add_dir(cs, ls, push_memflow(Head(paths)))
         IN  IF r.ok THEN add_paths_strict(r.connectors, r.libs, Tail(paths))
             ELSE [connectors |-> r.connectors, libs |-> r.libs]

\* try_new's loop over PATH: '<entry>/memflow' is added, errors are dropped
RECURSIVE add_paths(_, _, _)
add_paths(cs, ls, paths) ==
    IF paths = <<>> THEN [connectors |-> cs, libs |-> ls]
    ELSE LET r == add_dir(cs, ls, push_memflow(Head(paths)))
         IN  add_paths(r.connectors, r.libs, Tail(paths))

\* What '<entry>/memflow' resolves to, for the PATH entries of the model
PathDirs ==
    { NotADir, Unreadable, Dir(TRUE, TRUE, <<>>),
      Dir(TRUE, TRUE, <<File("desc", 1, "qemu")>>),
      Dir(TRUE, TRUE, <<File("desc", 2, "QEMU")>>),
      Dir(TRUE, TRUE, <<File("desc", 1, "QEMU"), EntryError, File("desc", 1, "qemu")>>) }
\* A PATH entry: the entry itself (own), here always a directory that holds
\* a loadable connector, and its 'memflow' subdirectory
PathEntries ==
    {[own |-> Dir(TRUE, TRUE, <<File("desc", 1, "QEMU")>>), memflow |-> d] : d \in PathDirs}
\* std::env::var_os("PATH"): None, or the list of entries
NoPath == [set |-> FALSE, entries |-> <<>>]
PathValues ==
    {NoPath} \cup {[set |-> TRUE, entries |-> es] : es \in SeqsUpTo(PathEntries, MaxPath)}

---------------------------------------------------------------------------
(* Connector::create and ConnectorInventory::create_connector *)

\* what the factory returned: NoError stands for Ok(provider)
FactoryOutcomes == {NoError} \cup PluginErrors

\* (mutant) the plugin's own error is handed to the caller
create_error_propagated(plugin_err) == plugin_err

\* the error create returns for a failed factory: a fixed static string,
\* whatever the plugin's error was
create_error(plugin_err) == Error("Connector", "Failed to create a connector")

\* Connector::create(args) on connector c, the factory returning `outcome`
create(ls, insts, c, outcome) ==
    IF outcome # NoError
    THEN [ok |-> FALSE, err |-> create_error(outcome), libs |-> ls, instances |-> insts]
    ELSE [ok |-> TRUE, err |-> NoError,
          libs |-> arc_clone(ls, c.library),
          instances |-> Append(insts, [connector |-> c.factory, library |-> c.library])]

\* (mutant) names are compared without regard to letter case
name_matches_nocase(c, name) ==
    LET lower(n) == IF n = "QEMU" THEN "qemu" ELSE n
    IN  lower(c.name) = lower(name)

\* self.connectors.iter().find(|c| c.name == name): the position of the first
\* connector with that name, 0 when there is none
name_matches(c, name) == c.name = name
\* (mutant) the last connector with that name is taken
find_last(cs, name) ==
    IF \E i \in 1..Len(cs) : name_matches(cs[i], name)
    THEN CHOOSE i \in 1..Len(cs) :
            /\ name_matches(cs[i], name)
            /\ \A j \in (i + 1)..Len(cs) : ~name_matches(cs[j], name)
    ELSE 0

find(cs, name) ==
    IF \E i \in 1..Len(cs) : name_matches(cs[i], name)
    THEN CHOOSE i \in 1..Len(cs) :
            /\ name_matches(cs[i], name)
            /\ \A j \in 1..(i - 1) : ~name_matches(cs[j], name)
    ELSE 0

Remove(s, i) == SubSeq(s, 1, i - 1) \o SubSeq(s, i + 1, Len(s))

---------------------------------------------------------------------------
(* Pointer64 *)

\* 2^Bits: u64 values are 0 .. Modulus - 1; usize is taken to be as wide as
\* u64 (a 64-bit host), so `as u64` changes no value
RECURSIVE Pow2(_)
Pow2(n) == IF n = 0 THEN 1 ELSE 2 * Pow2(n - 1)
Modulus == Pow2(Bits)
MaxValue == Modulus - 1
\* size_of::<T>() for the element types of the model
Sizes == {0, 1, 2, 4, 8}


\* The outcome of an operation: a value, or a panic ("attempt to ... with
\* overflow", where the build checks arithmetic overflow)
Value(v) == [panic |-> FALSE, value |-> v]
Panic == [panic |-> TRUE, value |-> 0]

\* usize `*`, u64 `+` and u64 `-`: the build either checks overflow
\* (overflow-checks on, the default of a debug build) and panics, or wraps
usize_mul(a, b, overflow_checks) ==
    IF a * b > MaxValue
    THEN IF overflow_checks THEN Panic ELSE Value((a * b) % Modulus)
    ELSE Value(a * b)
u64_add(a, b, overflow_checks) ==
    IF a + b > MaxValue
    THEN IF overflow_checks THEN Panic ELSE Value((a + b) % Modulus)
    ELSE Value(a + b)
u64_sub(a, b, overflow_checks) ==
    IF a < b
    THEN IF overflow_checks THEN Panic ELSE Value((a - b + Modulus) % Modulus)
    ELSE Value(a - b)

\* (mutant) the index is added as a byte count
at_bytes(address, i, size, overflow_checks) == u64_add(address, i, overflow_checks)

\* Pointer64<[T]>::at(i): self.address + (i * size_of::<T>()) as u64
at(address, i, size, overflow_checks) ==
    LET offset == usize_mul(i, size, overflow_checks)
    IN  IF offset.panic THEN Panic ELSE u64_add(address, offset.value, overflow_checks)

\* Pointer64<[T]>::decay(): the same address, as a pointer to T
decay(address) == Value(address)

\* Pointer64<T> + usize: self.address + (other * size_of::<T>()) as u64
add(address, other, size, overflow_checks) ==
    LET offset == usize_mul(other, size, overflow_checks)
    IN  IF offset.panic THEN Panic ELSE u64_add(address, offset.value, overflow_checks)

\* Pointer64<T> - usize: self.address - (other * size_of::<T>()) as u64
sub(address, other, size, overflow_checks) ==
    LET offset == usize_mul(other, size, overflow_checks)
    IN  IF offset.panic THEN Panic ELSE u64_sub(address, offset.value, overflow_checks)

\* u32 of the model has half the bits of u64
U32Modulus == Pow2(Bits \div 2)
\* u32::max_value()
U32Max == U32Modulus - 1

\* Option<Pointer64<T>>
None == [some |-> FALSE, address |-> 0]
Some(address) == [some |-> TRUE, address |-> address]

\* Pointer64::NULL and Pointer64::null(): the address 0
NULL == 0
null == NULL

\* (mutant) only the low half of the address is looked at
is_null_low(address) == address % U32Modulus = 0

\* Pointer64::is_null(): self.address == 0
is_null(address) == address = 0

\* Pointer64::non_null(): None if self.is_null(), Some(self) otherwise
non_null(address) == IF is_null(address) THEN None ELSE Some(address)

\* (mutant) the addresses are compared as u32
eq_low(address, rhs) == address % U32Modulus = rhs % U32Modulus

\* PartialEq: self.address == rhs.address
eq(address, rhs) == address = rhs

\* u64::cmp, the order of the unsigned integers
u64_cmp(a, b) == IF a < b THEN "Less" ELSE IF a = b THEN "Equal" ELSE "Greater"

\* Ord: self.address.cmp(&rhs.address)
cmp(address, rhs) == u64_cmp(address, rhs)

\* PartialOrd: self.address.partial_cmp(&rhs.address), always Some
partial_cmp(address, rhs) == [some |-> TRUE, ordering |-> u64_cmp(address, rhs)]

\* Hash: self.address.hash(state); a Hasher is the sequence of the u64
\* written to it
hash(address, state) == Append(state, address)

\* From<u32>: Pointer64 { address: address as u64 }
from_u32(address) == address % Modulus

\* Result<u32, Error>
Ok(value) == [ok |-> TRUE, value |-> value, err |-> "none"]
Err(kind) == [ok |-> FALSE, value |-> 0, err |-> kind]

\* (mutant) the conversion truncates, as as_u32() does
try_from_truncating(address) == Ok(address % U32Modulus)

\* TryFrom<Pointer64<T>> for u32: Ok(ptr.address as u32) if
\* ptr.address <= u32::max_value() as u64, Err(Error::Bounds) otherwise
try_from(address) ==
    IF address <= U32Max THEN Ok(address % U32Modulus) ELSE Err("Bounds")

\* The inputs of a Pointer64 operation: Pointer64::from(address), the usize
\* operand i, size_of::<T>(), and whether the build checks overflow
PtrInputs ==
    [address : 0..MaxValue, i : 0..MaxValue, size : Sizes, overflow_checks : BOOLEAN]
PtrIdle == [address |-> 0, i |-> 0, size |-> 0, overflow_checks |-> FALSE]
PtrResult(op, r) == [op |-> op, panic |-> r.panic, address |-> r.value]
NoPtrResult == PtrResult("none", Value(0))
\* the outcome of an operation that returns something else than a pointer
PtrAnswer(op, answer) == [op |-> op, panic |-> FALSE, address |-> 0, answer |-> answer]

---------------------------------------------------------------------------
(* The inventory's state machine *)

\* the win32 plugin and the C functions at rest
BuildIdle == [op |-> "none"]
FfiIdle == [op |-> "none"]

Init ==
    /\ libs = <<>>
    /\ inventory = [state |-> "none", connectors |-> <<>>]
    /\ loose = <<>>
    /\ instances = <<>>
    /\ lastResult = Result("none", <<>>, TRUE, NoError)
    /\ ptr = PtrIdle
    /\ ptrResult = NoPtrResult
    /\ build = BuildIdle
    /\ ffi = FfiIdle

\* (mutant) with_path drops add_dir's error, as try_new does
with_path_lenient(dir) ==
    /\ inventory.state = "none"
    /\ Len(libs) < MaxLibs
    /\ LET r == add_dir(<<>>, libs, dir)
       IN  /\ inventory' = [state |-> "alive", connectors |-> r.connectors]
           /\ libs' = r.libs
           /\ lastResult' = Result("with_path", dir, TRUE, NoError)
    /\ UNCHANGED <<loose, instances, ptr, ptrResult, build, ffi>>

\* ConnectorInventory::with_path(path), the path resolving to `dir`
with_path(dir) ==
    /\ inventory.state = "none"
    /\ Len(libs) < MaxLibs
    /\ LET r == add_dir(<<>>, libs, dir)
       IN  /\ inventory' = IF r.ok THEN [state |-> "alive", connectors |-> r.connectors]
                           ELSE inventory
           \* `?` returns the error and drops `ret` with what it had loaded
           /\ libs' = IF r.ok THEN r.libs ELSE drop_connectors(r.libs, r.connectors)
           /\ lastResult' = Result("with_path", dir, r.ok, r.err)
    /\ UNCHANGED <<loose, instances, ptr, ptrResult, build, ffi>>

\* ConnectorInventory::try_new(), PATH being `path`
try_new(path) ==
    /\ inventory.state = "none"
    /\ Len(libs) < MaxLibs
    /\ IF path.set
       THEN LET r == add_paths(<<>>, libs, path.entries)
            IN  /\ inventory' = [state |-> "alive", connectors |-> r.connectors]
                /\ libs' = r.libs
                /\ lastResult' = Result("try_new", path, TRUE, NoError)
       ELSE /\ lastResult' = Result("try_new", path, FALSE,
                                   Error("Other", "PATH is not set"))
            /\ UNCHANGED <<inventory, libs>>
    /\ UNCHANGED <<loose, instances, ptr, ptrResult, build, ffi>>

\* Connector::try_with(path) called directly; the caller keeps the Connector
Connector_try_with(file) ==
    /\ Len(libs) < MaxLoads
    /\ LET r == try_with(file)
       IN  /\ libs' = IF r.ok THEN arc_new(libs, file) ELSE libs
           /\ loose' = IF r.ok THEN Append(loose, Connector(Len(libs) + 1, file)) ELSE loose
           /\ lastResult' = Result("try_with", file, r.ok, r.err)
    /\ UNCHANGED <<inventory, instances, ptr, ptrResult, build, ffi>>

\* the outcome of a create call on connector c
Created(op, arg, c, outcome) ==
    LET r == create(libs, instances, c, outcome)
    IN  /\ libs' = r.libs
        /\ instances' = r.instances
        /\ lastResult' = [Result(op, arg, r.ok, r.err) EXCEPT
                              !.called = <<c.factory>>, !.plugin = outcome]

\* ConnectorInventory::create_connector(name, args); create_connector_default
\* is the same call with default args
create_connector(name, outcome) ==
    /\ inventory.state = "alive"
    /\ LET i == find(inventory.connectors, name)
       IN  IF i = 0
           THEN /\ lastResult' = Result("create_connector", name, FALSE,
                                        Error("Connector", "connector not found"))
                /\ UNCHANGED <<libs, instances>>
           ELSE /\ outcome = NoError => Len(instances) < MaxInst
                /\ Created("create_connector", name, inventory.connectors[i], outcome)
    /\ UNCHANGED <<inventory, loose, ptr, ptrResult, build, ffi>>

\* Connector::create(args) on a Connector the caller owns
Connector_create(k, outcome) ==
    /\ k \in 1..Len(loose)
    /\ outcome = NoError => Len(instances) < MaxInst
    /\ Created("create", k, loose[k], outcome)
    /\ UNCHANGED <<inventory, loose, ptr, ptrResult, build, ffi>>

\* (mutant) the library share is declared, and so dropped, first
ConnectorInstance_library_first == <<"_library", "connector">>

\* struct ConnectorInstance { connector, _library }: the fields in the order
\* they are declared, which is the order they are dropped in
ConnectorInstance == <<"connector", "_library">>

\* The drop of a ConnectorInstance, field by field: the drop of connector
\* runs the provider's destructor, which is code of the library; the drop of
\* _library releases the share. log notes for each whether the library was
\* loaded when the drop was done
RECURSIVE drop_in_place(_, _, _, _)
drop_in_place(ls, instance, fields, log) ==
    IF fields = <<>> THEN [libs |-> ls, log |-> log]
    ELSE LET after == IF Head(fields) = "_library" THEN arc_drop(ls, instance.library)
                      ELSE ls
         IN  drop_in_place(after, instance, Tail(fields),
                 Append(log, [field |-> Head(fields),
                              library_loaded |-> after[instance.library].loaded]))

\* a ConnectorInstance goes out of scope: its provider, then its Arc<Library>
drop_ConnectorInstance(k) ==
    /\ k \in 1..Len(instances)
    /\ LET dropped == drop_in_place(libs, instances[k], ConnectorInstance, <<>>)
       IN  /\ libs' = dropped.libs
           /\ lastResult' = [drops |-> dropped.log]
                                 @@ Result("drop_instance", k, TRUE, NoError)
    /\ instances' = Remove(instances, k)
    /\ UNCHANGED <<inventory, loose, ptr, ptrResult, build, ffi>>

\* a caller-owned Connector goes out of scope
drop_Connector(k) ==
    /\ k \in 1..Len(loose)
    /\ libs' = arc_drop(libs, loose[k].library)
    /\ loose' = Remove(loose, k)
    /\ lastResult' = Result("drop_connector", k, TRUE, NoError)
    /\ UNCHANGED <<inventory, instances, ptr, ptrResult, build, ffi>>

\* the ConnectorInventory goes out of scope: its Vec<Connector> is dropped
drop_ConnectorInventory ==
    /\ inventory.state = "alive"
    /\ libs' = drop_connectors(libs, inventory.connectors)
    /\ inventory' = [state |-> "dropped", connectors |-> <<>>]
    /\ lastResult' = Result("drop_inventory", <<>>, TRUE, NoError)
    /\ UNCHANGED <<loose, instances, ptr, ptrResult, build, ffi>>

Next ==
    \/ \E dir \in Dirs(MaxFiles) : with_path(dir)
    \/ \E path \in PathValues : try_new(path)
    \/ \E name \in Names, outcome \in FactoryOutcomes : create_connector(name, outcome)
    \/ \E k \in 1..MaxInst : drop_ConnectorInstance(k)
    \/ drop_ConnectorInventory

Spec == Init /\ [][Next]_vars

ConnectorNext ==
    \/ \E file \in Files : Connector_try_with(file)
    \/ \E k \in 1..MaxLoads, outcome \in FactoryOutcomes : Connector_create(k, outcome)
    \/ \E k \in 1..MaxInst : drop_ConnectorInstance(k)
    \/ \E k \in 1..MaxLoads : drop_Connector(k)

SpecConnector == Init /\ [][ConnectorNext]_vars

---------------------------------------------------------------------------
(* Pointer64 operations applied to the drawn inputs *)

PtrInit ==
    /\ libs = <<>>
    /\ inventory = [state |-> "none", connectors |-> <<>>]
    /\ loose = <<>>
    /\ instances = <<>>
    /\ lastResult = Result("none", <<>>, TRUE, NoError)
    /\ ptr \in PtrInputs
    /\ ptrResult = NoPtrResult
    /\ build = BuildIdle
    /\ ffi = FfiIdle

Pointer64_at ==
    /\ ptrResult' = PtrResult("at", at(ptr.address, ptr.i, ptr.size, ptr.overflow_checks))
    /\ UNCHANGED <<libs, inventory, loose, instances, lastResult, ptr, build, ffi>>

Pointer64_decay ==
    /\ ptrResult' = PtrResult("decay", decay(ptr.address))
    /\ UNCHANGED <<libs, inventory, loose, instances, lastResult, ptr, build, ffi>>

Pointer64_add ==
    /\ ptrResult' = PtrResult("add", add(ptr.address, ptr.i, ptr.size, ptr.overflow_checks))
    /\ UNCHANGED <<libs, inventory, loose, instances, lastResult, ptr, build, ffi>>

Pointer64_sub ==
    /\ ptrResult' = PtrResult("sub", sub(ptr.address, ptr.i, ptr.size, ptr.overflow_checks))
    /\ UNCHANGED <<libs, inventory, loose, instances, lastResult, ptr, build, ffi>>

\* Pointer64::from(address).is_null() and Pointer64::null().is_null()
Pointer64_is_null ==
    /\ ptrResult' = PtrAnswer("is_null", [of_ptr |-> is_null(ptr.address),
                                          of_null |-> is_null(null)])
    /\ UNCHANGED <<libs, inventory, loose, instances, lastResult, ptr, build, ffi>>

Pointer64_non_null ==
    /\ ptrResult' = PtrAnswer("non_null", non_null(ptr.address))
    /\ UNCHANGED <<libs, inventory, loose, instances, lastResult, ptr, build, ffi>>

\* ==, partial_cmp, cmp and hash of Pointer64::<T>::from(address) against
\* rhs = Pointer64::<T>::from(i as u64), T the type of size ptr.size
Pointer64_cmp ==
    /\ ptrResult' = PtrAnswer("cmp", [eq |-> eq(ptr.address, ptr.i),
                                      partial_cmp |-> partial_cmp(ptr.address, ptr.i),
                                      cmp |-> cmp(ptr.address, ptr.i),
                                      hash |-> hash(ptr.address, <<>>),
                                      rhs_hash |-> hash(ptr.i, <<>>)])
    /\ UNCHANGED <<libs, inventory, loose, instances, lastResult, ptr, build, ffi>>

\* u32::try_from(Pointer64::from(address)), and Pointer64::from of the u32
Pointer64_try_from ==
    /\ LET r == try_from(ptr.address)
       IN  ptrResult' = PtrAnswer("try_from",
               [result |-> r, back |-> IF r.ok THEN Some(from_u32(r.value)) ELSE None])
    /\ UNCHANGED <<libs, inventory, loose, instances, lastResult, ptr, build, ffi>>

PtrNext ==
    \/ Pointer64_at
    \/ Pointer64_decay
    \/ Pointer64_add
    \/ Pointer64_sub
    \/ Pointer64_is_null
    \/ Pointer64_non_null
    \/ Pointer64_cmp
    \/ Pointer64_try_from

SpecPtr == PtrInit /\ [][PtrNext]_vars

---------------------------------------------------------------------------
(* memflow-win32: the strings of the plugin's arguments *)

\* A &str is the sequence of its characters
Digits == <<"0", "1", "2", "3", "4", "5", "6", "7", "8", "9">>
Lower == <<"a", "b", "c", "d", "e", "f", "g", "h", "i", "j", "k", "l", "m",
           "n", "o", "p", "q", "r", "s", "t", "u", "v", "w", "x", "y", "z">>
Upper == <<"A", "B", "C", "D", "E", "F", "G", "H", "I", "J", "K", "L", "M",
           "N", "O", "P", "Q", "R", "S", "T", "U", "V", "W", "X", "Y", "Z">>
IndexOf(c, chars) == CHOOSE i \in 1..Len(chars) : chars[i] = c
IsIn(c, chars) == \E i \in 1..Len(chars) : chars[i] = c

\* Option<&str>
NoStr == [some |-> FALSE, str |-> <<>>]
SomeStr(s) == [some |-> TRUE, str |-> s]

\* (mutant) the string is left as it is spelled
to_lowercase_asis(s) == s

\* str::to_lowercase
to_lowercase(s) ==
    [i \in 1..Len(s) |-> IF IsIn(s[i], Upper) THEN Lower[IndexOf(s[i], Upper)] ELSE s[i]]

\* str::contains and str::ends_with of a non-empty pattern
contains(s, pat) ==
    \E i \in 1..Len(s) : i + Len(pat) - 1 <= Len(s) /\ SubSeq(s, i, i + Len(pat) - 1) = pat
ends_with(s, pat) ==
    Len(pat) <= Len(s) /\ SubSeq(s, Len(s) - Len(pat) + 1, Len(s)) = pat

\* str::trim_end_matches: the pattern is taken off the end as often as it is there
RECURSIVE trim_end_matches(_, _)
trim_end_matches(s, pat) ==
    IF ends_with(s, pat) THEN trim_end_matches(SubSeq(s, 1, Len(s) - Len(pat)), pat) ELSE s

\* str::split(sep), collected: the pieces between the separators
RECURSIVE split(_, _)
split(s, sep) ==
    IF IsIn(sep, s)
    THEN LET i == CHOOSE i \in 1..Len(s) : s[i] = sep /\ \A j \in 1..(i - 1) : s[j] # sep
         IN  <<SubSeq(s, 1, i - 1)>> \o split(SubSeq(s, i + 1, Len(s)), sep)
    ELSE <<s>>

\* str::splitn(2, sep), collected: cut at the first separator only
splitn2(s, sep) ==
    IF IsIn(sep, s)
    THEN LET i == CHOOSE i \in 1..Len(s) : s[i] = sep /\ \A j \in 1..(i - 1) : s[j] # sep
         IN  <<SubSeq(s, 1, i - 1), SubSeq(s, i + 1, Len(s))>>
    ELSE <<s>>

\* Iterator::nth(n), counted from 0
nth(parts, n) == IF n + 1 <= Len(parts) THEN SomeStr(parts[n + 1]) ELSE NoStr

\* mode.split('&').find(|s| s.contains(word)): the first part with the word
find_part(mode, word) ==
    LET parts == split(mode, "&")
        hits == {i \in 1..Len(parts) : contains(parts[i], word)}
    IN  IF hits = {} THEN NoStr
        ELSE SomeStr(parts[CHOOSE i \in hits : \A j \in hits : i <= j])

\* char::to_digit(radix): Ok(digit), or Err for a character that is none
to_digit(c, radix) ==
    LET d == IF IsIn(c, Digits) THEN IndexOf(c, Digits) - 1
             ELSE IF IsIn(c, Lower) THEN IndexOf(c, Lower) + 9
             ELSE IF IsIn(c, Upper) THEN IndexOf(c, Upper) + 9
             ELSE radix
    IN  IF d < radix THEN Ok(d) ELSE Err("InvalidDigit")

RECURSIVE digits_value(_, _)
digits_value(s, radix) ==
    IF s = <<>> THEN 0
    ELSE digits_value(SubSeq(s, 1, Len(s) - 1), radix) * radix + to_digit(s[Len(s)], radix).value

\* (mutant) the digits are read in base 10 whatever the radix
from_str_radix_decimal(s, radix) ==
    IF s = <<>> \/ \E i \in 1..Len(s) : ~to_digit(s[i], 10).ok
    THEN Err("ParseIntError") ELSE Ok(digits_value(s, 10))

\* usize::from_str_radix and u64::from_str_radix: an optional '+', then one
\* digit of the radix or more; the numbers of the model stay far below
\* usize::MAX, so that the overflow error does not arise
from_str_radix(s, radix) ==
    LET digits == IF s # <<>> /\ s[1] = "+" THEN Tail(s) ELSE s
    IN  IF digits = <<>> \/ \E i \in 1..Len(digits) : ~to_digit(digits[i], radix).ok
        THEN Err("ParseIntError")
        ELSE Ok(digits_value(digits, radix))

\* str::parse::<u64>(): from_str_radix(s, 10)
parse_u64(s) == from_str_radix(s, 10)

---------------------------------------------------------------------------
(* memflow-win32: build_kernel and its stages (plugins.rs) *)

\* Error(ErrorOrigin::OsLayer, ErrorKind::Configuration).log_error(msg)
Configuration(msg) == Error("Configuration", msg)

\* memflow::types::size: byte counts are held in units of 1024 bytes, so
\* that the sizes of the model fit the integers of the checker
size_kb(n) == n
size_mb(n) == n * 1024
size_gb(n) == n * 1024 * 1024

\* Win32Kernel::builder(mem): nothing configured yet. log lists the stages
\* entered and the builder methods called, in the order they happened
Win32KernelBuilder ==
    [dtb |-> "unset", vat_cache |-> "unset", page_cache |-> "unset",
     kernel_hint |-> "unset", symbol_store |-> "default", arch |-> "unset",
     log |-> <<>>]
Enter(builder, stage) == [builder EXCEPT !.log = Append(@, stage)]
Set(builder, field, value) ==
    [builder EXCEPT ![field] = value, !.log = Append(@, field)]

\* what build_kernel returns, and the builder as the call left it
Built(builder) == [ok |-> TRUE, err |-> NoError, builder |-> builder]
Failed(builder, err) == [ok |-> FALSE, err |-> err, builder |-> builder]

\* build_final: kernel_builder.build()?, whose error (final) is handed on
build_final(kernel_builder, final) ==
    LET builder == Set(Enter(kernel_builder, "build_final"), "build", final = NoError)
    IN  IF final = NoError THEN Built(builder) ELSE Failed(builder, final)

\* build_arch: the lower-cased arch argument names one of four architectures
build_arch(builder0, args, final) ==
    LET builder == Enter(builder0, "build_arch")
        arch == IF args.arch.some THEN SomeStr(to_lowercase(args.arch.str)) ELSE NoStr
    IN  IF arch = SomeStr(<<"x", "6", "4">>)
            THEN build_final(Set(builder, "arch", "X86(64, false)"), final)
        ELSE IF arch = SomeStr(<<"x", "3", "2">>)
            THEN build_final(Set(builder, "arch", "X86(32, false)"), final)
        ELSE IF arch = SomeStr(<<"x", "3", "2", "_", "p", "a", "e">>)
            THEN build_final(Set(builder, "arch", "X86(32, true)"), final)
        ELSE IF arch = SomeStr(<<"a", "a", "r", "c", "h", "6", "4">>)
            THEN build_final(Set(builder, "arch", "AArch64(size::kb(4))"), final)
        ELSE build_final(builder, final)

\* build_symstore: "uncached" and "none" are the two values that matter
build_symstore(builder0, args, final) ==
    LET builder == Enter(builder0, "build_symstore")
    IN  IF args.symstore = SomeStr(<<"u", "n", "c", "a", "c", "h", "e", "d">>)
            THEN build_arch(Set(builder, "symbol_store", "uncached"), args, final)
        ELSE IF args.symstore = SomeStr(<<"n", "o", "n", "e">>)
            THEN build_arch(Set(builder, "symbol_store", "none"), args, final)
        ELSE build_arch(builder, args, final)

\* (mutant) a leading "0x" is taken off before the digits are read
hex_arg_prefixed(arg) ==
    IF ~arg.some THEN Err("absent")
    ELSE IF Len(arg.str) >= 2 /\ SubSeq(arg.str, 1, 2) = <<"0", "x">>
    THEN from_str_radix(SubSeq(arg.str, 3, Len(arg.str)), 16)
    ELSE from_str_radix(arg.str, 16)

\* args.get(key).and_then(|d| u64::from_str_radix(d, 16).ok())
hex_arg(arg) == IF arg.some THEN from_str_radix(arg.str, 16) ELSE Err("absent")

\* build_kernel_hint
build_kernel_hint(builder0, args, final) ==
    LET builder == Enter(builder0, "build_kernel_hint")
        hint == hex_arg(args.kernel_hint)
    IN  IF hint.ok THEN build_symstore(Set(builder, "kernel_hint", hint.value), args, final)
        ELSE build_symstore(builder, args, final)

\* (mutant) a part without ';' gets a validator time of one second
size_and_time_lenient(vargs, missing) ==
    LET sp == splitn2(vargs, ";")
    IN  Ok([size |-> sp[1], time |-> IF Len(sp) < 2 THEN <<"1", "0", "0", "0">> ELSE sp[2]])

\* let mut sp = vargs.splitn(2, ';'); (sp.next()?, sp.next()?): the first
\* piece is always there, the second only after a ';'; missing is the
\* message of the error for the second
size_and_time(vargs, missing) ==
    LET sp == splitn2(vargs, ";")
    IN  IF Len(sp) < 2 THEN Err(missing)
        ELSE Ok([size |-> sp[1], time |-> sp[2]])

\* mul_arr, flattened: each unit's multiplier with each spelling of the unit
mul_arr ==
    << <<size_kb(1), <<"k", "b">> >>, <<size_kb(1), <<"k">> >>,
       <<size_mb(1), <<"m", "b">> >>, <<size_mb(1), <<"m">> >>,
       <<size_gb(1), <<"g", "b">> >>, <<size_gb(1), <<"g">> >> >>

\* the first (m, e) of mul_arr such that size.to_lowercase().ends_with(e),
\* as (size.trim_end_matches(e), m)
size_and_mul(size) ==
    LET hits == {i \in 1..Len(mul_arr) : ends_with(to_lowercase(size), mul_arr[i][2])}
        first == CHOOSE i \in hits : \A j \in hits : i <= j
    IN  IF hits = {} THEN Err("Invalid Page Cache size unit (or none)!")
        ELSE Ok([size |-> trim_end_matches(size, mul_arr[first][2]),
                 size_mul |-> mul_arr[first][1]])

\* build_page_cache: the first '&' part with "page" in it; after its ':'
\* come size and validator time; without a ':' the default page cache
build_page_cache(builder0, mode, args, final) ==
    LET builder == Enter(builder0, "build_page_cache")
        page == find_part(mode, <<"p", "a", "g", "e">>)
        vargs == nth(split(page.str, ":"), 1)
        st == size_and_time(vargs.str, "Failed to parse Page Cache validator time")
        sm == size_and_mul(st.value.size)
        size == from_str_radix(sm.value.size, 16)
        time == parse_u64(st.value.time)
    IN  IF ~page.some THEN build_kernel_hint(builder, args, final)
        ELSE IF ~vargs.some
            THEN build_kernel_hint(Set(builder, "page_cache", "default"), args, final)
        ELSE IF ~st.ok THEN Failed(builder, Configuration(st.err))
        ELSE IF ~sm.ok THEN Failed(builder, Configuration(sm.err))
        ELSE IF ~size.ok
            THEN Failed(builder, Configuration("Failed to parse Page Cache size"))
        ELSE IF ~time.ok
            THEN Failed(builder, Configuration("Failed to parse Page Cache validity time"))
        ELSE build_kernel_hint(
                 Set(builder, "page_cache",
                     [cache_size |-> size.value * sm.value.size_mul,
                      validator |-> time.value]),
                 args, final)

\* build_vat: the same for the part with "vat" in it, whose size is a count
\* of entries and has no unit; then build_page_cache
build_vat(builder0, mode, args, final) ==
    LET builder == Enter(builder0, "build_vat")
        vat == find_part(mode, <<"v", "a", "t">>)
        vargs == nth(split(vat.str, ":"), 1)
        st == size_and_time(vargs.str, "Failed to parse VAT validator time")
        size == from_str_radix(st.value.size, 16)
        time == parse_u64(st.value.time)
    IN  IF ~vat.some THEN build_page_cache(builder, mode, args, final)
        ELSE IF ~vargs.some
            THEN build_page_cache(Set(builder, "vat_cache", "default"), mode, args, final)
        ELSE IF ~st.ok THEN Failed(builder, Configuration(st.err))
        ELSE IF ~size.ok THEN Failed(builder, Configuration("Failed to parse VAT size"))
        ELSE IF ~time.ok
            THEN Failed(builder, Configuration("Failed to parse VAT validity time"))
        ELSE build_page_cache(
                 Set(builder, "vat_cache",
                     [entries |-> size.value, validator |-> time.value]),
                 mode, args, final)

\* (mutant) without a memcache argument no cache is built
memcache_or_none(args) ==
    IF args.memcache.some THEN args.memcache.str ELSE <<"n", "o", "n", "e">>

\* args.get("memcache").unwrap_or("default")
memcache(args) ==
    IF args.memcache.some THEN args.memcache.str ELSE <<"d", "e", "f", "a", "u", "l", "t">>

\* builder.build_default_caches(): both caches with their default settings
build_default_caches(builder) ==
    [builder EXCEPT !.vat_cache = "default", !.page_cache = "default",
                    !.log = Append(@, "default_caches")]

\* build_caches
build_caches(builder0, args, final) ==
    LET builder == Enter(builder0, "build_caches")
        mode == memcache(args)
    IN  IF mode = <<"d", "e", "f", "a", "u", "l", "t">>
            THEN build_kernel_hint(build_default_caches(builder), args, final)
        ELSE IF mode = <<"n", "o", "n", "e">>
            THEN build_kernel_hint(builder, args, final)
        ELSE build_vat(builder, mode, args, final)

\* build_dtb
build_dtb(builder0, args, final) ==
    LET builder == Enter(builder0, "build_dtb")
        dtb == hex_arg(args.dtb)
    IN  IF dtb.ok THEN build_caches(Set(builder, "dtb", dtb.value), args, final)
        ELSE build_caches(builder, args, final)

\* (mutant) the builder is made whether there is memory or not
build_kernel_unchecked(args, mem, final) == build_dtb(Win32KernelBuilder, args, final)

\* build_kernel(args, mem, log_level): mem says whether a connector instance
\* was passed
build_kernel(args, mem, final) ==
    IF ~mem THEN Failed(Win32KernelBuilder, Configuration("Must provide memory!"))
    ELSE build_dtb(Win32KernelBuilder, args, final)

\* The arguments build_kernel is called with in the model. A memcache spec
\* is put together from a page part and a vat part: well-formed ones, ones
\* with a size, a unit or a time that does not parse, and ones with no ';'
PageParts ==
    LET PageSizes == {<<"1", "0", "0">>, <<"1", "F">>, <<"z">>}
        PageUnits ==
            {<<"k", "b">>, <<"k">>, <<"m", "b">>, <<"m">>, <<"g", "b">>, <<"g">>, <<>>,
             <<"M", "B">>, <<"K">>, <<"G", "b">>}
        PageTimes == {<<"5", "0", "0">>, <<"5", "s">>}
    IN  {<<"p", "a", "g", "e", ":">> \o s \o u \o <<";">> \o t :
            s \in PageSizes, u \in PageUnits, t \in PageTimes}
        \cup {<<"p", "a", "g", "e", ":", "1", "0", "0", "m", "b">>, <<"p", "a", "g", "e">>}
VatParts ==
    LET VatSizes == {<<"1", "0", "0">>, <<"z">>}
        VatTimes == {<<"5", "0", "0">>, <<>>}
    IN  {<<"v", "a", "t", ":">> \o e \o <<";">> \o t : e \in VatSizes, t \in VatTimes}
        \cup {<<"v", "a", "t", ":", "1", "0", "0">>, <<"v", "a", "t">>}
SpecExample == <<"p", "a", "g", "e", ":", "1", "0", "0", "0", "m", "b", ";", "5", "0", "0", "&", "v", "a", "t", ":", "1", "0", "0", ";", "5", "0", "0">>
MemcacheValues ==
    {p \o <<"&">> \o v : p \in PageParts, v \in VatParts}
    \cup PageParts \cup VatParts
    \cup {SpecExample, <<"d", "e", "f", "a", "u", "l", "t">>, <<"n", "o", "n", "e">>, <<"f", "a", "s", "t">>}
MemcacheArgs == {NoStr} \cup {SomeStr(m) : m \in MemcacheValues}
HexArgs == {NoStr} \cup {SomeStr(d) : d \in {<<"1", "a", "a", "0", "0", "0">>, <<"0", "x", "1", "0", "0", "0">>}}
SymstoreArgs == {NoStr} \cup {SomeStr(x) : x \in {<<"u", "n", "c", "a", "c", "h", "e", "d">>, <<"n", "o", "n", "e">>, <<"c", "a", "c", "h", "e", "d">>}}
ArchArgs == {NoStr} \cup {SomeStr(a) : a \in {<<"x", "6", "4">>, <<"X", "3", "2">>, <<"x", "3", "2", "_", "p", "a", "e">>, <<"a", "a", "r", "c", "h", "6", "4">>, <<"m", "i", "p", "s">>}}

\* every memcache value with the other arguments all absent or all given,
\* and every value of the other arguments with four of the memcache values
ArgsValues ==
    [dtb : {NoStr}, memcache : MemcacheArgs, kernel_hint : {NoStr},
     symstore : {NoStr}, arch : {NoStr}]
    \cup [dtb : {SomeStr(<<"1", "a", "a", "0", "0", "0">>)}, memcache : MemcacheArgs,
          kernel_hint : {SomeStr(<<"1", "a", "a", "0", "0", "0">>)},
          symstore : {SomeStr(<<"u", "n", "c", "a", "c", "h", "e", "d">>)},
          arch : {SomeStr(<<"x", "6", "4">>)}]
    \cup [dtb : HexArgs,
          memcache : {NoStr, SomeStr(<<"n", "o", "n", "e">>), SomeStr(SpecExample),
                      SomeStr(<<"p", "a", "g", "e", ":", "1", "0", "0", "m", "b", ";", "5", "0", "0", "&", "v", "a", "t", ":", "1", "0", "0">>)},
          kernel_hint : HexArgs, symstore : SymstoreArgs, arch : ArchArgs]

\* what the final kernel_builder.build() may return
FinalOutcomes == {NoError, Error("Other", "kernel not found")}

\* a call of build_kernel about to be made: its arguments, whether a
\* connector instance is passed, and what the final build will return
BuildInputs ==
    {[op |-> "call", args |-> args, mem |-> mem, final |-> final,
      result |-> Built(Win32KernelBuilder)] :
        args \in ArgsValues, mem \in BOOLEAN, final \in FinalOutcomes}

BuildInit ==
    /\ libs = <<>>
    /\ inventory = [state |-> "none", connectors |-> <<>>]
    /\ loose = <<>>
    /\ instances = <<>>
    /\ lastResult = Result("none", <<>>, TRUE, NoError)
    /\ ptr = PtrIdle
    /\ ptrResult = NoPtrResult
    /\ build \in BuildInputs
    /\ ffi = FfiIdle

\* the plugin entry point is called
Win32_build_kernel ==
    /\ build' = [build EXCEPT !.op = "build_kernel",
                              !.result = build_kernel(build.args, build.mem, build.final)]
    /\ UNCHANGED <<libs, inventory, loose, instances, lastResult, ptr, ptrResult, ffi>>

SpecWin32 == BuildInit /\ [][Win32_build_kernel]_vars

---------------------------------------------------------------------------
(* memflow-ffi: the C functions over a physical memory object (phys_mem.rs) *)

\* the physical memory objects the caller holds (mem: &mut PhysicalMemoryObj)
Providers == {1, 2}

\* PhysicalMemoryMapping { base, size, real_base }; the second overlaps the
\* first
Mappings ==
    {[base |-> 0, size |-> 2, real_base |-> 8],
     [base |-> 1, size |-> 2, real_base |-> 4],
     [base |-> 4, size |-> 2, real_base |-> 0]}

\* what the provider's own operation returns: Ok, or an error of the taxonomy
ErrorKinds ==
    <<"IO", "Configuration", "Connector", "OutOfBounds", "PageNotPresent",
      "InvalidPageTable", "Bounds", "Partial", "Other">>
PhysOutcomes ==
    {NoError, Error("IO", "device unavailable"), Error("OutOfBounds", "not in the map")}
\* the u32 or u64 a successful read finds in memory
ReadValues == {0, 7}

\* Result::into_int_result(): 0 for Ok, for Err the negative number of the
\* error's kind
into_int_result(outcome) ==
    [type |-> "int32",
     value |-> IF outcome = NoError THEN 0
               ELSE 0 - (CHOOSE i \in 1..Len(ErrorKinds) : ErrorKinds[i] = outcome.kind)]

\* Result::unwrap_or_default(): the value read, or 0 after an error
unwrap_or_default(outcome, value, type) ==
    [type |-> type, value |-> IF outcome = NoError THEN value ELSE 0]

\* MemoryMap::new(): no mapping
MemoryMap_new == <<>>

\* MemoryMap::push_remap(base, size, real_base): the mapping is put in at
\* its place in the order of the bases, unless it overlaps one that is there
push_remap(mem_map, m) ==
    IF \E i \in 1..Len(mem_map) :
           m.base < mem_map[i].base + mem_map[i].size /\ mem_map[i].base < m.base + m.size
    THEN mem_map
    ELSE LET before == SelectSeq(mem_map, LAMBDA x : x.base < m.base)
             after == SelectSeq(mem_map, LAMBDA x : x.base > m.base)
         IN  before \o <<m>> \o after

\* mem_maps_slice.iter().for_each(|m| { mem_map.push_remap(..); })
RECURSIVE for_each_push_remap(_, _)
for_each_push_remap(mem_map, mem_maps_slice) ==
    IF mem_maps_slice = <<>> THEN mem_map
    ELSE for_each_push_remap(push_remap(mem_map, Head(mem_maps_slice)), Tail(mem_maps_slice))

\* (mutant) the mappings are pushed into the map the provider has
phys_set_mem_map_into_current(current, mem_maps_slice) ==
    for_each_push_remap(current, mem_maps_slice)

\* phys_set_mem_map: a new map, every mapping of the slice pushed into it,
\* and the result handed to mem.set_mem_map, which replaces the provider's
\* map (current)
phys_set_mem_map(current, mem_maps_slice) ==
    for_each_push_remap(MemoryMap_new, mem_maps_slice)

\* one call of a C function: the object, the argument, what the provider's
\* operation returned (outcome) and what the C function returned (ret)
FfiCall(fn, mem, arg, outcome, ret) ==
    [fn |-> fn, mem |-> mem, arg |-> arg, outcome |-> outcome, ret |-> ret]

FfiInit ==
    /\ libs = <<>>
    /\ inventory = [state |-> "none", connectors |-> <<>>]
    /\ loose = <<>>
    /\ instances = <<>>
    /\ lastResult = Result("none", <<>>, TRUE, NoError)
    /\ ptr = PtrIdle
    /\ ptrResult = NoPtrResult
    /\ build = BuildIdle
    /\ ffi = [op |-> "ffi", maps |-> [p \in Providers |-> MemoryMap_new],
              last |-> FfiCall("none", 1, <<>>, NoError, into_int_result(NoError))]

\* phys_read_raw_list: mem.phys_read_raw_list(data).into_int_result()
extern_phys_read_raw_list(mem, outcome) ==
    /\ ffi' = [ffi EXCEPT !.last =
                 FfiCall("phys_read_raw_list", mem, <<>>, outcome, into_int_result(outcome))]
    /\ UNCHANGED <<libs, inventory, loose, instances, lastResult, ptr, ptrResult, build>>

\* phys_write_raw_list: mem.phys_write_raw_list(data).into_int_result()
extern_phys_write_raw_list(mem, outcome) ==
    /\ ffi' = [ffi EXCEPT !.last =
                 FfiCall("phys_write_raw_list", mem, <<>>, outcome, into_int_result(outcome))]
    /\ UNCHANGED <<libs, inventory, loose, instances, lastResult, ptr, ptrResult, build>>

\* phys_metadata: mem.metadata(), the metadata itself
extern_phys_metadata(mem) ==
    /\ ffi' = [ffi EXCEPT !.last =
                 FfiCall("phys_metadata", mem, <<>>, NoError,
                         [type |-> "PhysicalMemoryMetadata", value |-> 0])]
    /\ UNCHANGED <<libs, inventory, loose, instances, lastResult, ptr, ptrResult, build>>

\* phys_set_mem_map: nothing is returned
extern_phys_set_mem_map(mem, mem_maps_slice) ==
    /\ ffi' = [ffi EXCEPT
                 !.maps[mem] = phys_set_mem_map(ffi.maps[mem], mem_maps_slice),
                 !.last = FfiCall("phys_set_mem_map", mem, mem_maps_slice, NoError,
                                  [type |-> "()", value |-> 0])]
    /\ UNCHANGED <<libs, inventory, loose, instances, lastResult, ptr, ptrResult, build>>

\* phys_read_raw: mem.phys_read_raw_into(addr.into(), ..).into_int_result()
extern_phys_read_raw(mem, outcome) ==
    /\ ffi' = [ffi EXCEPT !.last =
                 FfiCall("phys_read_raw", mem, <<>>, outcome, into_int_result(outcome))]
    /\ UNCHANGED <<libs, inventory, loose, instances, lastResult, ptr, ptrResult, build>>

\* phys_read_u32: mem.phys_read::<u32>(addr.into()).unwrap_or_default()
extern_phys_read_u32(mem, outcome, value) ==
    /\ ffi' = [ffi EXCEPT !.last =
                 FfiCall("phys_read_u32", mem, value, outcome,
                         unwrap_or_default(outcome, value, "u32"))]
    /\ UNCHANGED <<libs, inventory, loose, instances, lastResult, ptr, ptrResult, build>>

\* phys_read_u64: mem.phys_read::<u64>(addr.into()).unwrap_or_default()
extern_phys_read_u64(mem, outcome, value) ==
    /\ ffi' = [ffi EXCEPT !.last =
                 FfiCall("phys_read_u64", mem, value, outcome,
                         unwrap_or_default(outcome, value, "u64"))]
    /\ UNCHANGED <<libs, inventory, loose, instances, lastResult, ptr, ptrResult, build>>

\* phys_write_raw: mem.phys_write_raw(addr.into(), ..).into_int_result()
extern_phys_write_raw(mem, outcome) ==
    /\ ffi' = [ffi EXCEPT !.last =
                 FfiCall("phys_write_raw", mem, <<>>, outcome, into_int_result(outcome))]
    /\ UNCHANGED <<libs, inventory, loose, instances, lastResult, ptr, ptrResult, build>>

\* phys_write_u32: mem.phys_write(addr.into(), &val).into_int_result()
extern_phys_write_u32(mem, outcome) ==
    /\ ffi' = [ffi EXCEPT !.last =
                 FfiCall("phys_write_u32", mem, <<>>, outcome, into_int_result(outcome))]
    /\ UNCHANGED <<libs, inventory, loose, instances, lastResult, ptr, ptrResult, build>>

\* phys_write_u64: mem.phys_write(addr.into(), &val).into_int_result()
extern_phys_write_u64(mem, outcome) ==
    /\ ffi' = [ffi EXCEPT !.last =
                 FfiCall("phys_write_u64", mem, <<>>, outcome, into_int_result(outcome))]
    /\ UNCHANGED <<libs, inventory, loose, instances, lastResult, ptr, ptrResult, build>>

FfiNext ==
    \/ \E mem \in Providers, outcome \in PhysOutcomes : extern_phys_read_raw_list(mem, outcome)
    \/ \E mem \in Providers, outcome \in PhysOutcomes : extern_phys_write_raw_list(mem, outcome)
    \/ \E mem \in Providers : extern_phys_metadata(mem)
    \/ \E mem \in Providers, mem_maps_slice \in SeqsUpTo(Mappings, MaxMaps) :
           extern_phys_set_mem_map(mem, mem_maps_slice)
    \/ \E mem \in Providers, outcome \in PhysOutcomes : extern_phys_read_raw(mem, outcome)
    \/ \E mem \in Providers, outcome \in PhysOutcomes, value \in ReadValues :
           extern_phys_read_u32(mem, outcome, value)
    \/ \E mem \in Providers, outcome \in PhysOutcomes, value \in ReadValues :
           extern_phys_read_u64(mem, outcome, value)
    \/ \E mem \in Providers, outcome \in PhysOutcomes : extern_phys_write_raw(mem, outcome)
    \/ \E mem \in Providers, outcome \in PhysOutcomes : extern_phys_write_u32(mem, outcome)
    \/ \E mem \in Providers, outcome \in PhysOutcomes : extern_phys_write_u64(mem, outcome)

SpecFfi == FfiInit /\ [][FfiNext]_vars

---------------------------------------------------------------------------
(* Properties *)

\* the holders of library l: the Connectors of a live inventory, the
\* Connectors the caller owns and the live ConnectorInstances
Holders(l) ==
    Cardinality({k \in 1..Len(inventory.connectors) :
                    inventory.state = "alive" /\ inventory.connectors[k].library = l})
    + Cardinality({k \in 1..Len(loose) : loose[k].library = l})
    + Cardinality({k \in 1..Len(instances) : instances[k].library = l})

\* the files the libraries of a list of Connectors were loaded from
ConnectorFiles(cs) == [k \in 1..Len(cs) |-> libs[cs[k].library].file]
ConnectorNames(cs) == [k \in 1..Len(cs) |-> cs[k].name]

\* a file that loads as a connector: a descriptor of the current version
IsLoadable(f) == f.kind = "desc" /\ f.version = 1
Loadable(es) == SelectSeq(es, IsLoadable)
FileNames(fs) == [k \in 1..Len(fs) |-> fs[k].name]

\* the entries of a listing read before its first unreadable entry
RECURSIVE BeforeError(_)
BeforeError(es) ==
    IF es = <<>> \/ Head(es).kind = "ioerr" THEN <<>>
    ELSE <<Head(es)>> \o BeforeError(Tail(es))
HasEntryError(es) == \E k \in 1..Len(es) : es[k].kind = "ioerr"

\* C1: in every state, whatever the order of create_connector calls,
\* instance drops and the inventory's drop, the library of every live
\* ConnectorInstance is loaded.
C1_LibraryLoadedWhileInstanceAlive ==
    \A k \in 1..Len(instances) :
        /\ libs[instances[k].library].loaded
        /\ libs[instances[k].library].unloads = 0

\* an instance outlives the inventory that created it
C1_Witness ==
    /\ inventory.state = "dropped"
    /\ Len(instances) >= 1
    /\ lastResult.op = "drop_inventory"

\* C2: a library is loaded exactly while it has a holder (the inventory's
\* Connector or an instance), and it has been unloaded once, and only once,
\* exactly when it has none left; the inventory's Connector alone keeps it
\* loaded.
C2_UnloadedExactlyAtLastRelease ==
    \A l \in 1..Len(libs) :
        /\ libs[l].loaded <=> Holders(l) > 0
        /\ libs[l].unloads = (IF Holders(l) > 0 THEN 0 ELSE 1)

\* the last holder released was an instance, after the inventory
C2_Witness ==
    /\ inventory.state = "dropped"
    /\ lastResult.op = "drop_instance"
    /\ instances = <<>>
    /\ \E l \in 1..Len(libs) : libs[l].unloads = 1 /\ ~libs[l].loaded

\* C3: try_with on a library that exports MEMFLOW_CONNECTOR succeeds if and
\* only if the descriptor's version is 1; otherwise it returns
\* Error::Connector and produces no Connector; every Connector held has a
\* library of version 1.
C3_VersionGate ==
    /\ [](/\ (lastResult.op = "try_with" /\ lastResult.arg.kind = "desc") =>
                /\ lastResult.ok <=> lastResult.arg.version = 1
                /\ ~lastResult.ok => lastResult.err.kind = "Connector"
          /\ \A k \in 1..Len(loose) : libs[loose[k].library].file.version = 1)
    /\ [][(lastResult'.op = "try_with" /\ ~lastResult'.ok) =>
             (loose' = loose /\ libs' = libs)]_vars

\* a library of another version was rejected
C3_Witness ==
    /\ lastResult.op = "try_with"
    /\ lastResult.arg.kind = "desc"
    /\ lastResult.arg.version = 0
    /\ lastResult.err = Error("Connector", "connector version mismatch")

\* C4: with_path on a directory whose listing can be read returns Ok with an
\* inventory holding exactly the files that load and pass the version gate,
\* in listing order, whatever else the directory holds; with no such file
\* (an empty directory included) the inventory has zero connectors.
C4_BadFilesAreSkipped ==
    (/\ lastResult.op = "with_path"
     /\ lastResult.arg.isDir
     /\ lastResult.arg.readable
     /\ ~HasEntryError(lastResult.arg.entries)) =>
        /\ lastResult.ok
        /\ inventory.state = "alive"
        /\ ConnectorFiles(inventory.connectors) = Loadable(lastResult.arg.entries)
        /\ ConnectorNames(inventory.connectors) = FileNames(Loadable(lastResult.arg.entries))
        /\ Loadable(lastResult.arg.entries) = <<>> => inventory.connectors = <<>>

\* a directory with one file that loads and one that does not
C4_Witness ==
    /\ lastResult.op = "with_path"
    /\ lastResult.ok
    /\ Len(lastResult.arg.entries) = 2
    /\ lastResult.arg.entries[1].kind = "notlib"
    /\ Len(inventory.connectors) = 1

\* C5: when the factory returns an error, create returns
\* Error::Connector("Failed to create a connector") whatever that error
\* was, creates no instance and leaves every library's share count as it was.
C5_FactoryErrorIsRewritten ==
    [][(lastResult'.op = "create" /\ lastResult'.plugin # NoError) =>
          /\ ~lastResult'.ok
          /\ lastResult'.err = Error("Connector", "Failed to create a connector")
          /\ instances' = instances
          /\ libs' = libs]_vars

\* the factory failed with an IO error of its own
C5_Witness ==
    /\ lastResult.op = "create"
    /\ lastResult.plugin = Error("IO", "device unavailable")
    /\ ~lastResult.ok

\* C6: create_connector with a name no connector of the inventory has
\* returns Error::Connector, runs no factory, creates no instance and
\* leaves the inventory and the libraries unchanged.
C6_UnknownNameFails ==
    [][(/\ lastResult'.op = "create_connector"
        /\ \A k \in 1..Len(inventory.connectors) :
               inventory.connectors[k].name # lastResult'.arg) =>
          /\ ~lastResult'.ok
          /\ lastResult'.err.kind = "Connector"
          /\ lastResult'.called = <<>>
          /\ instances' = instances
          /\ inventory' = inventory
          /\ libs' = libs]_vars

\* the name differs from a connector's name by letter case only
C6_Witness ==
    /\ lastResult.op = "create_connector"
    /\ lastResult.err = Error("Connector", "connector not found")
    /\ lastResult.arg = "QEMU"
    /\ \E k \in 1..Len(inventory.connectors) : inventory.connectors[k].name = "qemu"

\* what try_new is to load from one '<entry>/memflow'
Scanned(d) == IF d.isDir /\ d.readable THEN Loadable(BeforeError(d.entries)) ELSE <<>>
RECURSIVE ScannedAll(_)
ScannedAll(entries) ==
    IF entries = <<>> THEN <<>>
    ELSE Scanned(Head(entries).memflow) \o ScannedAll(Tail(entries))

\* C7: try_new returns Ok exactly when PATH is set, having scanned
\* '<entry>/memflow' of every entry in order and passed over every entry
\* whose path is no directory or cannot be read; with PATH unset it returns
\* Error::Other("PATH is not set") and builds no inventory.
C7_TryNewIgnoresBadEntries ==
    lastResult.op = "try_new" =>
        /\ lastResult.ok <=> lastResult.arg.set
        /\ ~lastResult.arg.set =>
              /\ lastResult.err = Error("Other", "PATH is not set")
              /\ inventory.state = "none"
        /\ lastResult.arg.set =>
              /\ inventory.state = "alive"
              /\ ConnectorFiles(inventory.connectors) = ScannedAll(lastResult.arg.entries)

\* a PATH whose first entry has no memflow directory and whose second has
\* one with a connector
C7_Witness ==
    /\ lastResult.op = "try_new"
    /\ lastResult.ok
    /\ Len(lastResult.arg.entries) = 2
    /\ ~lastResult.arg.entries[1].memflow.isDir
    /\ Len(inventory.connectors) = 1

\* C8: with_path on a path that is not a directory fails with an Error::IO
\* and produces no inventory.
C8_NotADirectoryFails ==
    (lastResult.op = "with_path" /\ ~lastResult.arg.isDir) =>
        /\ ~lastResult.ok
        /\ lastResult.err.kind = "IO"
        /\ inventory.state = "none"
        /\ inventory.connectors = <<>>

C8_Witness ==
    /\ lastResult.op = "with_path"
    /\ ~lastResult.arg.isDir
    /\ lastResult.err = Error("IO", "invalid path argument")

\* C9: when a + b * size_of::<T>() fits the address width, at(b) returns
\* exactly that address, and decay returns the address a itself.
C9_AtAddsScaledIndex ==
    /\ (ptrResult.op = "at" /\ ptr.address + ptr.i * ptr.size <= MaxValue) =>
          /\ ~ptrResult.panic
          /\ ptrResult.address = ptr.address + ptr.i * ptr.size
    /\ ptrResult.op = "decay" =>
          /\ ~ptrResult.panic
          /\ ptrResult.address = ptr.address

\* an index above one into elements wider than a byte
C9_Witness ==
    /\ ptrResult.op = "at"
    /\ ptr.i = 3
    /\ ptr.size = 4
    /\ ptr.address = 2
    /\ ptrResult.address = 14

\* the value a wrapping, resp. a saturating, operation returns for the
\* exact result x
Wrapped(x) == x % Modulus
Saturated(x) == IF x > MaxValue THEN MaxValue ELSE IF x < 0 THEN 0 ELSE x
Exact(op) ==
    IF op = "sub" THEN ptr.address - ptr.i * ptr.size
    ELSE ptr.address + ptr.i * ptr.size

\* C10: at, + and - never fail and return the wrapped or the saturated
\* value of the exact result, for every address and offset.
C10_WrapsOrSaturates ==
    ptrResult.op \in {"at", "add", "sub"} =>
        /\ ~ptrResult.panic
        /\ ptrResult.address \in {Wrapped(Exact(ptrResult.op)), Saturated(Exact(ptrResult.op))}

\* C11: Pointer64::null().is_null() is true; Pointer64::from(x).is_null() is
\* true exactly when x = 0; non_null() returns None exactly when the pointer
\* is null and Some of the same pointer otherwise.
C11_NullIsAddressZero ==
    /\ ptrResult.op = "is_null" =>
           /\ ptrResult.answer.of_null
           /\ ptrResult.answer.of_ptr <=> (ptr.address = 0)
    /\ ptrResult.op = "non_null" =>
           /\ ~ptrResult.answer.some <=> (ptr.address = 0)
           /\ ptrResult.answer.some => ptrResult.answer.address = ptr.address
C11_Witness ==
    /\ ptrResult.op = "is_null"
    /\ ptr.address = U32Modulus
    /\ ~ptrResult.answer.of_ptr

\* C12: equality, ordering and hashing of two Pointer64<T> depend on the two
\* addresses only: equal iff the addresses are equal, ordered as the unsigned
\* addresses are, hashed identically when the addresses are equal, whatever T.
C12_ComparedByAddress ==
    ptrResult.op = "cmp" =>
        /\ ptrResult.answer.eq <=> (ptr.address = ptr.i)
        /\ ptrResult.answer.cmp = "Less" <=> (ptr.address < ptr.i)
        /\ ptrResult.answer.cmp = "Equal" <=> (ptr.address = ptr.i)
        /\ ptrResult.answer.cmp = "Greater" <=> (ptr.address > ptr.i)
        /\ ptrResult.answer.partial_cmp = [some |-> TRUE, ordering |-> ptrResult.answer.cmp]
        /\ ptr.address = ptr.i => ptrResult.answer.hash = ptrResult.answer.rhs_hash
C12_Witness ==
    /\ ptrResult.op = "cmp"
    /\ ptr.address = U32Modulus + 1
    /\ ptr.i = 1
    /\ ptr.size = 8
    /\ ptrResult.answer.cmp = "Greater"

\* C13: u32::try_from(pointer) is Ok(address) exactly when the address is at
\* most u32::MAX and Err(Error::Bounds) otherwise; when it is Ok, turning the
\* u32 back into a pointer gives a pointer equal to the original.
C13_TryFromU32 ==
    ptrResult.op = "try_from" =>
        /\ ptrResult.answer.result.ok <=> (ptr.address <= U32Max)
        /\ ptrResult.answer.result.ok =>
               /\ ptrResult.answer.result.value = ptr.address
               /\ ptrResult.answer.back.some
               /\ eq(ptrResult.answer.back.address, ptr.address)
        /\ ~ptrResult.answer.result.ok => ptrResult.answer.result.err = "Bounds"
C13_Witness ==
    /\ ptrResult.op = "try_from"
    /\ ptr.address = U32Max
    /\ ptrResult.answer.result.ok
    /\ ptrResult.answer.back = Some(U32Max)

\* What the claims about memcache say the fields of a spec mean: sizes and
\* entry counts in base 16, times in base 10, and the bytes of a unit (in
\* units of 1024 bytes, as the model keeps all byte counts)
HexMeaning == <<"1", "0", "0">> :> 256 @@ <<"1", "F">> :> 31 @@ <<"1", "0", "0", "0">> :> 4096
DecMeaning == <<"5", "0", "0">> :> 500
UnitMeaning ==
    <<"k", "b">> :> 1 @@ <<"k">> :> 1 @@ <<"m", "b">> :> 1024 @@ <<"m">> :> 1024
    @@ <<"g", "b">> :> 1024 * 1024 @@ <<"g">> :> 1024 * 1024
BuilderLog == build.result.builder.log
InLog(what) == \E i \in 1..Len(BuilderLog) : BuilderLog[i] = what
StartsWith(s, pat) == Len(pat) <= Len(s) /\ SubSeq(s, 1, Len(pat)) = pat

\* C14: for memcache = page:<S><unit>;<T1>&vat:<E>;<T2> the page cache gets
\* the size S (hexadecimal) times the bytes of the unit (kb/k 1024, mb/m
\* 1024^2, gb/g 1024^3) and a validator of T1 (decimal) milliseconds, the
\* translation cache gets E (hexadecimal) entries and a validator of T2
\* (decimal) milliseconds.
C14_MemcacheSpecIsParsed ==
    \A s \in DOMAIN HexMeaning, u \in DOMAIN UnitMeaning, e \in DOMAIN HexMeaning,
       t1 \in DOMAIN DecMeaning, t2 \in DOMAIN DecMeaning :
        /\ build.op = "build_kernel"
        /\ build.mem
        /\ build.args.memcache =
               SomeStr(<<"p", "a", "g", "e", ":">> \o s \o u \o <<";">> \o t1 \o <<"&", "v", "a", "t", ":">> \o e \o <<";">> \o t2)
        => /\ InLog("build")
           /\ build.result.builder.page_cache =
                  [cache_size |-> HexMeaning[s] * UnitMeaning[u], validator |-> DecMeaning[t1]]
           /\ build.result.builder.vat_cache =
                  [entries |-> HexMeaning[e], validator |-> DecMeaning[t2]]
C14_Witness ==
    /\ build.op = "build_kernel"
    /\ build.args.memcache = SomeStr(SpecExample)
    /\ build.result.ok
    /\ build.result.builder.page_cache = [cache_size |-> 4096 * 1024, validator |-> 500]
    /\ build.result.builder.vat_cache = [entries |-> 256, validator |-> 500]

\* C15: when the page: part or the vat: part of a memcache spec has no ';'
\* between the size and the validator time, build_kernel returns a
\* Configuration error and the kernel build is not run.
C15_MissingSemicolonFails ==
    /\ build.op = "build_kernel"
    /\ build.mem
    /\ build.args.memcache.some
    /\ \E part \in {split(build.args.memcache.str, "&")[i] :
                        i \in 1..Len(split(build.args.memcache.str, "&"))} :
           /\ StartsWith(part, <<"p", "a", "g", "e", ":">>) \/ StartsWith(part, <<"v", "a", "t", ":">>)
           /\ ~IsIn(";", part)
    => /\ ~build.result.ok
       /\ build.result.err.kind = "Configuration"
       /\ ~InLog("build")
C15_Witness ==
    /\ build.op = "build_kernel"
    /\ build.args.memcache = SomeStr(<<"p", "a", "g", "e", ":", "1", "0", "0", "m", "b", "&", "v", "a", "t", ":", "1", "0", "0", ";", "5", "0", "0">>)
    /\ build.result.err = Configuration("Failed to parse Page Cache validator time")
    /\ ~InLog("build")

\* C16: with memcache absent or "default" the kernel gets the default page
\* and translation caches; with "none" it gets neither; any other value is
\* parsed as a cache spec. In the first two cases memcache gives rise to no
\* Configuration error.
C16_DefaultAndNone ==
    build.op = "build_kernel" /\ build.mem =>
        LET arg == build.args.memcache
            builder == build.result.builder
        IN  /\ arg = NoStr \/ arg = SomeStr(<<"d", "e", "f", "a", "u", "l", "t">>) =>
                   /\ builder.page_cache = "default" /\ builder.vat_cache = "default"
                   /\ ~InLog("build_vat") /\ InLog("build")
                   /\ build.result.err.kind # "Configuration"
            /\ arg = SomeStr(<<"n", "o", "n", "e">>) =>
                   /\ builder.page_cache = "unset" /\ builder.vat_cache = "unset"
                   /\ ~InLog("build_vat") /\ InLog("build")
                   /\ build.result.err.kind # "Configuration"
            /\ arg \notin {NoStr, SomeStr(<<"d", "e", "f", "a", "u", "l", "t">>), SomeStr(<<"n", "o", "n", "e">>)} =>
                   InLog("build_vat")
C16_Witness ==
    /\ build.op = "build_kernel"
    /\ build.args.memcache = NoStr
    /\ build.result.ok
    /\ build.result.builder.page_cache = "default"
    /\ build.result.builder.vat_cache = "default"

\* the stages and the builder calls, in the order the plugin goes through
StageOrder ==
    <<"build_dtb", "dtb", "build_caches", "default_caches", "build_vat", "vat_cache",
      "build_page_cache", "page_cache", "build_kernel_hint", "kernel_hint",
      "build_symstore", "symbol_store", "build_arch", "arch", "build_final", "build">>
Position(what) == CHOOSE i \in 1..Len(StageOrder) : StageOrder[i] = what
BadVatParts == {<<"v", "a", "t", ":", "1", "0", "0">>, <<"v", "a", "t", ":", "z", ";", "5", "0", "0">>, <<"v", "a", "t", ":", "1", "0", "0", ";">>, <<"v", "a", "t", ":", "z", ";">>}

\* C19: build_kernel goes through the stages in the order dtb, memcache (the
\* translation cache before the page cache), kernel_hint, symstore, arch,
\* and runs the final kernel build once, after all of them. Without memory,
\* or when a stage reports a Configuration error, the final build is not
\* run and the error is returned; an error in the vat part is reported
\* before the page part is looked at.
C19_StagesInOrder ==
    build.op = "build_kernel" =>
        /\ \A i \in 1..Len(BuilderLog) : IsIn(BuilderLog[i], StageOrder)
        /\ \A i, j \in 1..Len(BuilderLog) :
               i < j => Position(BuilderLog[i]) < Position(BuilderLog[j])
        /\ ~build.mem =>
               /\ BuilderLog = <<>>
               /\ build.result = Failed(Win32KernelBuilder, Configuration("Must provide memory!"))
        /\ build.mem =>
               \/ /\ InLog("build")
                  /\ \A stage \in {"build_dtb", "build_caches", "build_kernel_hint",
                                   "build_symstore", "build_arch", "build_final"} :
                         InLog(stage)
                  /\ build.result.ok <=> (build.final = NoError)
                  /\ build.result.err = build.final
               \/ /\ ~InLog("build")
                  /\ ~build.result.ok
                  /\ build.result.err.kind = "Configuration"
        /\ \A p \in PageParts, v \in BadVatParts :
               build.mem /\ build.args.memcache = SomeStr(p \o <<"&">> \o v) =>
                   /\ ~InLog("build_page_cache")
                   /\ ~InLog("build")
                   /\ build.result.err.kind = "Configuration"
C19_Witness ==
    /\ build.op = "build_kernel"
    /\ build.result.ok
    /\ BuilderLog =
           <<"build_dtb", "dtb", "build_caches", "build_vat", "vat_cache",
             "build_page_cache", "page_cache", "build_kernel_hint", "kernel_hint",
             "build_symstore", "symbol_store", "build_arch", "arch", "build_final", "build">>

\* C17: every phys_* function of the C boundary returns an int32 that is 0
\* when the operation succeeded and negative when it failed.
C17_StatusIsInt32 ==
    ffi.last.fn # "none" =>
        /\ ffi.last.ret.type = "int32"
        /\ ffi.last.outcome = NoError => ffi.last.ret.value = 0
        /\ ffi.last.outcome # NoError => ffi.last.ret.value < 0

C20_ProviderDroppedBeforeLibrary ==
    lastResult.op = "drop_instance" =>
        /\ Len(lastResult.drops) = 2
        /\ lastResult.drops[1].field = "connector"
        /\ lastResult.drops[1].library_loaded
        /\ lastResult.drops[2].field = "_library"
C20_Witness ==
    /\ lastResult.op = "drop_instance"
    /\ inventory.state = "dropped"
    /\ lastResult.drops[1] = [field |-> "connector", library_loaded |-> TRUE]
    /\ lastResult.drops[2] = [field |-> "_library", library_loaded |-> FALSE]

\* the spellings of a unit the model's sizes end in, in either letter case
UnitSpellings ==
    {<<"k", "b">>, <<"k">>, <<"m", "b">>, <<"m">>, <<"g", "b">>, <<"g">>,
     <<"M", "B">>, <<"K">>, <<"G", "b">>}

\* C21: the unit of the page cache size is recognised whatever its letter
\* case: a size whose unit is spelled in upper case is accepted and gives the
\* same page cache size as the lower-case spelling; a size without a
\* recognised unit is rejected with a Configuration error.
C21_UnitCaseInsensitive ==
    build.op = "build_kernel" /\ build.mem =>
        \A s \in DOMAIN HexMeaning, t \in DOMAIN DecMeaning :
            /\ \A u \in UnitSpellings :
                   build.args.memcache = SomeStr(<<"p", "a", "g", "e", ":">> \o s \o u \o <<";">> \o t)
                   => /\ InLog("build")
                      /\ build.result.builder.page_cache =
                             [cache_size |-> HexMeaning[s] * UnitMeaning[to_lowercase(u)],
                              validator |-> DecMeaning[t]]
            /\ build.args.memcache = SomeStr(<<"p", "a", "g", "e", ":">> \o s \o <<";">> \o t)
               => /\ ~build.result.ok
                  /\ build.result.err.kind = "Configuration"

\* values of dtb and kernel_hint that are no hexadecimal number, and the
\* names of the architectures arch can select
NotHex == {<<"0", "x", "1", "0", "0", "0">>}
ArchNames ==
    {<<"x", "6", "4">>, <<"x", "3", "2">>, <<"x", "3", "2", "_", "p", "a", "e">>,
     <<"a", "a", "r", "c", "h", "6", "4">>}
\* the same call with one argument left out
Without(key) == build_kernel([build.args EXCEPT ![key] = NoStr], build.mem, build.final)

\* C22: a dtb or kernel_hint that is no hexadecimal u64 is ignored without
\* an error: build_kernel goes through the same stages with the same builder
\* settings and the same result as when the argument is absent; an arch that
\* is, lower-cased, none of x64, x32, x32_pae, aarch64 leaves the
\* architecture unset, again as if absent.
C22_BadValuesAreIgnored ==
    build.op = "build_kernel" /\ build.mem =>
        /\ build.args.dtb.some /\ build.args.dtb.str \in NotHex =>
               /\ build.result = Without("dtb")
               /\ build.result.builder.dtb = "unset"
               /\ ~InLog("dtb")
        /\ build.args.kernel_hint.some /\ build.args.kernel_hint.str \in NotHex =>
               /\ build.result = Without("kernel_hint")
               /\ build.result.builder.kernel_hint = "unset"
               /\ ~InLog("kernel_hint")
        /\ build.args.arch.some /\ to_lowercase(build.args.arch.str) \notin ArchNames =>
               /\ build.result = Without("arch")
               /\ build.result.builder.arch = "unset"
               /\ ~InLog("arch")
C22_Witness ==
    /\ build.op = "build_kernel"
    /\ build.args.dtb = SomeStr(<<"0", "x", "1", "0", "0", "0">>)
    /\ build.args.kernel_hint = SomeStr(<<"0", "x", "1", "0", "0", "0">>)
    /\ build.args.arch = SomeStr(<<"m", "i", "p", "s">>)
    /\ build.result.ok
    /\ BuilderLog = <<"build_dtb", "build_caches", "default_caches", "build_kernel_hint",
                      "build_symstore", "build_arch", "build_final", "build">>

\* the positions in the inventory of the connectors called name
Named(name) == {k \in 1..Len(inventory.connectors) : inventory.connectors[k].name = name}

\* C23: when several connectors of the inventory have the name asked for,
\* create_connector uses the one loaded first: only its factory is called,
\* the instance returned holds a share of its library and of no other, and
\* when its factory fails the call fails and no later connector is tried.
C23_FirstLoadedIsUsed ==
    [][lastResult'.op = "create_connector" /\ Named(lastResult'.arg) # {} =>
          LET first == inventory.connectors[
                           CHOOSE k \in Named(lastResult'.arg) :
                               \A j \in Named(lastResult'.arg) : k <= j]
          IN  /\ lastResult'.called = <<first.factory>>
              /\ lastResult'.ok =>
                     /\ instances' = Append(instances, [connector |-> first.factory,
                                                        library |-> first.library])
                     /\ \A l \in 1..Len(libs) :
                            libs'[l].strong =
                                libs[l].strong + (IF l = first.library THEN 1 ELSE 0)
              /\ ~lastResult'.ok =>
                     /\ lastResult'.plugin # NoError
                     /\ lastResult'.err.kind = "Connector"
                     /\ instances' = instances
                     /\ libs' = libs]_vars
C23_Witness ==
    /\ lastResult.op = "create_connector"
    /\ lastResult.ok
    /\ Cardinality(Named(lastResult.arg)) = 2
    /\ lastResult.called = <<inventory.connectors[1].factory>>
    /\ instances[Len(instances)].library = inventory.connectors[1].library
    /\ libs[inventory.connectors[1].library].strong = 2
    /\ libs[inventory.connectors[2].library].strong = 1

=============================================================================
